---- MODULE Spec2Model ----
(***************************************************************************)
(* A model of the async-iterator crate: the Iterator trait with its map    *)
(* and filter adapters, the identity IntoIterator conversion, and the two  *)
(* drains FromIterator::from_iter (collect) and Extend::extend for Vec.    *)
(*                                                                         *)
(* One behaviour of the model is one call of a drain (or of a hand-written *)
(* caller that keeps requesting items) on one iterator pipeline.  Every    *)
(* `.await` of the source is a step boundary: a state in which a call is   *)
(* in flight is a state in which the future is suspended there.            *)
(***************************************************************************)
EXTENDS Integers, Sequences, FiniteSets, TLC

----------------------------------------------------------------------------
(* Bounds of the model *)

\* longest sequence of responses a base producer is built with
MaxLen == 3
\* largest number of elements already in the Vec that extend is called on
MaxInit == 2
\* number of requests the hand-written caller makes
MaxPolls == 3

\* item values the base producers yield
Items == {1, 2}

\* isize::MAX / size_of::<T>(), the largest capacity a Vec<T> can have,
\* scaled down so that it stays above every length the model reaches
MaxCapacity == MaxInit + MaxLen + 1
\* usize::MAX, scaled the same way (usize::MAX = 2 * isize::MAX + 1)
UsizeMax == 2 * MaxCapacity + 1

Max(a, b) == IF a >= b THEN a ELSE b

----------------------------------------------------------------------------
(* Option<T> *)

None == [some |-> FALSE, val |-> 0]
Some(x) == [some |-> TRUE, val |-> x]

\* Option::unwrap_or_default for Option<usize>
unwrap_or_default(o) == IF o.some THEN o.val ELSE 0

\* Option::take: returns the value and leaves None in the slot
take_keep(o) == [ret |-> o, slot |-> o]
take(o) == [ret |-> o, slot |-> None]

----------------------------------------------------------------------------
(* User-supplied closures: the transformation f and the predicate *)

FnNames == {"times10", "succ"}
PredNames == {"is_even", "is_odd", "always", "never"}

\* F: FnMut(I::Item) -> B
CallF(fn, x) == IF fn = "times10" THEN 10 * x ELSE x + 1

\* P: FnMut(&I::Item) -> bool
CallPredicate(pr, x) ==
    CASE pr = "is_even" -> x % 2 = 0
      [] pr = "is_odd" -> x % 2 = 1
      [] pr = "always" -> TRUE
      [] OTHER -> FALSE

----------------------------------------------------------------------------
(* Vec<T>: its elements and its capacity *)

EmptyVec == [elems |-> <<>>, cap |-> 0]

\* Vec::with_capacity and Vec::reserve panic with "capacity overflow" when
\* the capacity asked for exceeds isize::MAX bytes
CapacityOverflow(len, additional) == len + additional > MaxCapacity

with_capacity(n) == [elems |-> <<>>, cap |-> n]

reserve(v, additional) ==
    IF v.cap - Len(v.elems) >= additional
    THEN v
    ELSE [v EXCEPT !.cap = Len(v.elems) + additional]

push(v, x) ==
    [elems |-> Append(v.elems, x), cap |-> Max(v.cap, Len(v.elems) + 1)]

----------------------------------------------------------------------------
(* Size hints: <<lower, upper>> with upper an Option<usize> *)

\* the default method of the Iterator trait
IteratorSizeHint == <<0, None>>

\* Map does not override size_hint: it has the default of the trait
MapSizeHint(inner) == IteratorSizeHint

\* Filter::size_hint
FilterSizeHint_DropUpper(inner) == <<0, None>>
FilterSizeHint_KeepLower(inner) == <<inner[1], inner[2]>>
FilterSizeHint(inner) == <<0, inner[2]>>

----------------------------------------------------------------------------
(* Base producers: the hand-built implementations of Iterator that the     *)
(* adapters wrap.  A "script" producer answers its requests from a fixed   *)
(* sequence of responses and then answers None; a "once" producer is the   *)
(* PollingOnce of the example.                                             *)

HintModes == {"default", "exact", "loose", "huge", "under", "over"}

MovedBase ==
    [kind |-> "moved", value |-> None, script |-> <<>>, pos |-> 0,
     hint |-> "default"]

\* once(t): PollingOnce { value: Some(t) }
once(t) ==
    [kind |-> "once", value |-> Some(t), script |-> <<>>, pos |-> 0,
     hint |-> "default"]

ScriptProducer(s, h) ==
    [kind |-> "script", value |-> None, script |-> s, pos |-> 0, hint |-> h]

\* the items of a sequence of responses that come before its first None
RECURSIVE UntilNone(_)
UntilNone(s) ==
    IF s = <<>> \/ ~ Head(s).some
    THEN <<>>
    ELSE <<Head(s).val>> \o UntilNone(Tail(s))

\* the items a base producer yields from now on before its terminal signal
BaseItems(b) ==
    IF b.kind = "once"
    THEN UntilNone(<<b.value>>)
    ELSE UntilNone(SubSeq(b.script, b.pos + 1, Len(b.script)))

\* next of a base producer: the response and the producer afterwards
BaseNext(b) ==
    IF b.kind = "once"
    THEN [resp |-> take(b.value).ret,
          base |-> [b EXCEPT !.value = take(b.value).slot]]
    ELSE IF b.pos < Len(b.script)
         THEN [resp |-> b.script[b.pos + 1], base |-> [b EXCEPT !.pos = @ + 1]]
         ELSE [resp |-> None, base |-> b]

\* size_hint of a base producer
BaseSizeHint(b) ==
    LET rem == Len(BaseItems(b))
    IN  CASE b.hint = "exact" -> <<rem, Some(rem)>>
          [] b.hint = "loose" -> <<Max(rem - 1, 0), Some(rem + 1)>>
          [] b.hint = "huge" -> <<0, Some(UsizeMax)>>
          [] b.hint = "under" -> <<0, Some(0)>>
          [] b.hint = "over" -> <<rem + 1, None>>
          [] OTHER -> IteratorSizeHint

----------------------------------------------------------------------------
(* Pipelines: a base producer under a stack of adapters.  chain[1] is the  *)
(* outermost adapter; the base producer is at level Len(chain) + 1.        *)

Unset == [chain |-> <<>>, f |-> "-", predicate |-> "-", base |-> MovedBase]

\* Iterator::map and Iterator::filter: wrap self
map(it, fn) == [it EXCEPT !.chain = <<"map">> \o @, !.f = fn]
filter(it, pr) == [it EXCEPT !.chain = <<"filter">> \o @, !.predicate = pr]

\* Iterator::lend and Iterator::lend_mut: wrap self in a LendingIterator
lend(it) == [it EXCEPT !.chain = <<"lend">> \o @]
lend_mut(it) == [it EXCEPT !.chain = <<"lend_mut">> \o @]

Source(b) == [chain |-> <<>>, f |-> "-", predicate |-> "-", base |-> b]

\* the producer that the outermost adapter wraps
Inner(it) == [it EXCEPT !.chain = Tail(@)]

\* size_hint of a pipeline
RECURSIVE size_hint(_)
size_hint(it) ==
    IF it.chain = <<>>
    THEN BaseSizeHint(it.base)
    ELSE IF it.chain[1] = "filter"
         THEN FilterSizeHint(size_hint(Inner(it)))
         ELSE MapSizeHint(size_hint(Inner(it)))

\* IntoIterator for I: Iterator
into_iter_skip(it) == [it EXCEPT !.base = BaseNext(@).base]
into_iter(it) == it

----------------------------------------------------------------------------
(* The inputs a behaviour starts from *)

\* a response is an item or the terminal signal; a script with a None inside
\* is a producer that is not fused: it resumes yielding after its first None
Responses == {None} \cup {Some(x) : x \in Items}

Scripts == UNION {[1..n -> Responses] : n \in 0..MaxLen}

Bases ==
    {ScriptProducer(s, h) : s \in Scripts, h \in HintModes}
        \cup {once(t) : t \in Items}

Pipelines ==
    {Source(b) : b \in Bases}
        \cup {map(Source(b), fn) : b \in Bases, fn \in FnNames}
        \cup {filter(Source(b), pr) : b \in Bases, pr \in PredNames}
        \cup {map(filter(Source(b), pr[1]), pr[2]) :
                b \in Bases, pr \in PredNames \X FnNames}
        \cup {filter(map(Source(b), pr[2]), pr[1]) :
                b \in Bases, pr \in PredNames \X FnNames}

\* a LendingIterator is no Iterator: nothing wraps it and no drain takes it;
\* it has no size_hint, so the hint of what it wraps is never read
Lendable == {p \in Pipelines : p.base.hint = "default"}

LendingPipelines == {lend(p) : p \in Lendable} \cup {lend_mut(p) : p \in Lendable}

\* the Vec that extend is called on: k elements already in it
InitVec(k) == [elems |-> [i \in 1..k |-> 100 + i], cap |-> k]

----------------------------------------------------------------------------
(* State *)

VARIABLES
    op,      \* the caller: "collect" (from_iter), "extend" or "poll"
    arg,     \* the IntoIterator handed to the drain, Unset once moved
    iter,    \* the local `iter` of the drain / the caller's iterator
    vec,     \* `output` of from_iter, `self` of extend
    pc,      \* where the caller is
    ctl,     \* where the request in flight is, inside the pipeline
    out,     \* the responses the polling caller has received
    reqs,    \* number of requests made to the base producer
    fcalls,  \* the items f has been called on, in order
    pcalls,  \* the items the predicate has been called on, in order
    orig,    \* the pipeline the behaviour started with
    vec0,    \* the Vec the behaviour started with
    resps,   \* every response returned so far, with the level that returned it
    sus      \* "pending" while the future is suspended, "resumed" once polled again

vars ==
    <<op, arg, iter, vec, pc, ctl, out, reqs, fcalls, pcalls, orig, vec0,
      resps, sus>>

\* the future is being polled, not parked at an await
Running == sus # "pending"

\* resps after level l has returned r
Returned(l, r) == Append(resps, [lvl |-> l, val |-> r])

Idle == [k |-> "idle", lvl |-> 0, val |-> None]
Call(l) == [k |-> "call", lvl |-> l, val |-> None]
AwaitFn(l, x) == [k |-> "fn", lvl |-> l, val |-> Some(x)]
Ret(l, r) == [k |-> "ret", lvl |-> l, val |-> r]

\* the adapter at level l, "base" below the adapters
KindAt(l) ==
    IF l >= 1 /\ l <= Len(iter.chain) THEN iter.chain[l]
    ELSE IF l = Len(iter.chain) + 1 THEN "base" ELSE "none"

Init ==
    /\ op \in {"collect", "extend", "poll"}
    /\ orig \in IF op = "poll" THEN Pipelines \cup LendingPipelines ELSE Pipelines
    /\ vec0 \in {InitVec(k) : k \in 0..MaxInit}
    /\ (op # "extend") => vec0 = EmptyVec
    /\ vec = vec0
    /\ IF op = "poll"
       THEN arg = Unset /\ iter = orig /\ pc = "next"
       ELSE arg = orig /\ iter = Unset /\ pc = "into_iter"
    /\ ctl = Idle
    /\ out = <<>>
    /\ reqs = 0
    /\ fcalls = <<>>
    /\ pcalls = <<>>
    /\ resps = <<>>
    /\ sus = "run"

----------------------------------------------------------------------------
(* The drains: FromIterator::from_iter for Vec and Extend::extend for Vec *)

\* let mut iter = iter.into_iter().await;
IntoIter ==
    /\ Running
    /\ pc = "into_iter"
    /\ iter' = into_iter(arg)
    /\ arg' = Unset
    /\ pc' = "reserve"
    /\ sus' = "run"
    /\ UNCHANGED <<op, vec, ctl, out, reqs, fcalls, pcalls, orig, vec0, resps>>

\* let mut output = Vec::with_capacity(iter.size_hint().1.unwrap_or_default());
FromIterAlloc ==
    /\ Running
    /\ pc = "reserve"
    /\ op = "collect"
    /\ LET n == unwrap_or_default(size_hint(iter)[2])
       IN  IF CapacityOverflow(0, n)
           THEN pc' = "panic" /\ vec' = vec
           ELSE pc' = "next" /\ vec' = with_capacity(n)
    /\ sus' = "run"
    /\ UNCHANGED <<op, arg, iter, ctl, out, reqs, fcalls, pcalls, orig, vec0, resps>>

\* self.reserve(iter.size_hint().1.unwrap_or_default());
ExtendReserve ==
    /\ Running
    /\ pc = "reserve"
    /\ op = "extend"
    /\ LET n == unwrap_or_default(size_hint(iter)[2])
       IN  IF vec.cap - Len(vec.elems) < n /\ CapacityOverflow(Len(vec.elems), n)
           THEN pc' = "panic" /\ vec' = vec
           ELSE pc' = "next" /\ vec' = reserve(vec, n)
    /\ sus' = "run"
    /\ UNCHANGED <<op, arg, iter, ctl, out, reqs, fcalls, pcalls, orig, vec0, resps>>

\* iter.next() of the loop head: the request enters the pipeline
CallNext ==
    /\ Running
    /\ pc = "next"
    /\ op = "poll" => Len(out) < MaxPolls
    /\ pc' = "await"
    /\ ctl' = Call(1)
    /\ sus' = "run"
    /\ UNCHANGED <<op, arg, iter, vec, out, reqs, fcalls, pcalls, orig, vec0, resps>>

\* while let Some(item) = ... { output.push(item); }
DrainPush ==
    /\ Running
    /\ pc = "await"
    /\ op \in {"collect", "extend"}
    /\ ctl.k = "ret" /\ ctl.lvl = 1 /\ ctl.val.some
    /\ vec' = push(vec, ctl.val.val)
    /\ pc' = "next"
    /\ ctl' = Idle
    /\ sus' = "run"
    /\ UNCHANGED <<op, arg, iter, out, reqs, fcalls, pcalls, orig, vec0, resps>>

\* the loop ends on None; from_iter returns output, extend returns
DrainReturn_SkipsNone ==
    /\ Running
    /\ pc = "await"
    /\ op \in {"collect", "extend"}
    /\ ctl.k = "ret" /\ ctl.lvl = 1 /\ ~ ctl.val.some
    /\ pc' = IF iter.base.pos < Len(iter.base.script) THEN "next" ELSE "done"
    /\ ctl' = Idle
    /\ sus' = "run"
    /\ UNCHANGED <<op, arg, iter, vec, out, reqs, fcalls, pcalls, orig, vec0,
                   resps>>

DrainReturn ==
    /\ Running
    /\ pc = "await"
    /\ op \in {"collect", "extend"}
    /\ ctl.k = "ret" /\ ctl.lvl = 1 /\ ~ ctl.val.some
    /\ pc' = "done"
    /\ ctl' = Idle
    /\ sus' = "run"
    /\ UNCHANGED <<op, arg, iter, vec, out, reqs, fcalls, pcalls, orig, vec0, resps>>

----------------------------------------------------------------------------
(* A caller that requests MaxPolls items by hand, as call_once does once *)

PollResume ==
    /\ Running
    /\ pc = "await"
    /\ op = "poll"
    /\ ctl.k = "ret" /\ ctl.lvl = 1
    /\ out' = Append(out, ctl.val)
    /\ pc' = "next"
    /\ ctl' = Idle
    /\ sus' = "run"
    /\ UNCHANGED <<op, arg, iter, vec, reqs, fcalls, pcalls, orig, vec0, resps>>

PollStop ==
    /\ Running
    /\ pc = "next"
    /\ op = "poll"
    /\ Len(out) = MaxPolls
    /\ pc' = "done"
    /\ sus' = "run"
    /\ UNCHANGED <<op, arg, iter, vec, ctl, out, reqs, fcalls, pcalls, orig, vec0, resps>>

----------------------------------------------------------------------------
(* Map::next *)

\* let out = (self.f)(item).await; Some(out)
MapOut_NoCall(fn, item) == Some(item)
MapOut(fn, item) == Some(CallF(fn, item))

\* self.stream.next() is called
MapNext_Fused ==
    /\ Running
    /\ ctl.k = "call"
    /\ KindAt(ctl.lvl) = "map"
    /\ IF \E i \in 1..Len(resps) : resps[i].lvl = ctl.lvl /\ ~ resps[i].val.some
       THEN ctl' = Ret(ctl.lvl, None) /\ resps' = Returned(ctl.lvl, None)
       ELSE ctl' = Call(ctl.lvl + 1) /\ resps' = resps
    /\ sus' = "run"
    /\ UNCHANGED <<op, arg, iter, vec, pc, out, reqs, fcalls, pcalls, orig, vec0>>

MapNext ==
    /\ Running
    /\ ctl.k = "call"
    /\ KindAt(ctl.lvl) = "map"
    /\ ctl' = Call(ctl.lvl + 1)
    /\ sus' = "run"
    /\ UNCHANGED <<op, arg, iter, vec, pc, out, reqs, fcalls, pcalls, orig, vec0, resps>>

\* .await? : None returns None, an item goes to f
MapResume_CallsFOnNone ==
    /\ Running
    /\ ctl.k = "ret"
    /\ KindAt(ctl.lvl - 1) = "map"
    /\ ctl' = AwaitFn(ctl.lvl - 1, ctl.val.val)
    /\ sus' = "run"
    /\ UNCHANGED <<op, arg, iter, vec, pc, out, reqs, fcalls, pcalls, orig,
                   vec0, resps>>

MapResume ==
    /\ Running
    /\ ctl.k = "ret"
    /\ KindAt(ctl.lvl - 1) = "map"
    /\ ctl' = IF ctl.val.some
              THEN AwaitFn(ctl.lvl - 1, ctl.val.val)
              ELSE Ret(ctl.lvl - 1, None)
    /\ resps' = IF ctl.val.some THEN resps ELSE Returned(ctl.lvl - 1, None)
    /\ sus' = "run"
    /\ UNCHANGED <<op, arg, iter, vec, pc, out, reqs, fcalls, pcalls, orig, vec0>>

\* (self.f)(item).await completes
MapFnDone ==
    /\ Running
    /\ ctl.k = "fn"
    /\ KindAt(ctl.lvl) = "map"
    /\ fcalls' = Append(fcalls, ctl.val.val)
    /\ ctl' = Ret(ctl.lvl, MapOut(iter.f, ctl.val.val))
    /\ resps' = Returned(ctl.lvl, MapOut(iter.f, ctl.val.val))
    /\ sus' = "run"
    /\ UNCHANGED <<op, arg, iter, vec, pc, out, reqs, pcalls, orig, vec0>>

----------------------------------------------------------------------------
(* Filter::next *)

\* if (self.predicate)(&item).await
FilterKeeps_All(pr, item) == TRUE
FilterKeeps(pr, item) == CallPredicate(pr, item)

\* loop { self.iter.next() is called
FilterNext ==
    /\ Running
    /\ ctl.k = "call"
    /\ KindAt(ctl.lvl) = "filter"
    /\ ctl' = Call(ctl.lvl + 1)
    /\ sus' = "run"
    /\ UNCHANGED <<op, arg, iter, vec, pc, out, reqs, fcalls, pcalls, orig, vec0, resps>>

\* .await? : None returns None, an item goes to the predicate
FilterResume ==
    /\ Running
    /\ ctl.k = "ret"
    /\ KindAt(ctl.lvl - 1) = "filter"
    /\ ctl' = IF ctl.val.some
              THEN AwaitFn(ctl.lvl - 1, ctl.val.val)
              ELSE Ret(ctl.lvl - 1, None)
    /\ resps' = IF ctl.val.some THEN resps ELSE Returned(ctl.lvl - 1, None)
    /\ sus' = "run"
    /\ UNCHANGED <<op, arg, iter, vec, pc, out, reqs, fcalls, pcalls, orig, vec0>>

\* the predicate completes: return Some(item), or go round the loop
FilterPredDone ==
    /\ Running
    /\ ctl.k = "fn"
    /\ KindAt(ctl.lvl) = "filter"
    /\ pcalls' = Append(pcalls, ctl.val.val)
    /\ ctl' = IF FilterKeeps(iter.predicate, ctl.val.val)
              THEN Ret(ctl.lvl, ctl.val)
              ELSE Call(ctl.lvl + 1)
    /\ resps' = IF FilterKeeps(iter.predicate, ctl.val.val)
                THEN Returned(ctl.lvl, ctl.val)
                ELSE resps
    /\ sus' = "run"
    /\ UNCHANGED <<op, arg, iter, vec, pc, out, reqs, fcalls, orig, vec0>>

----------------------------------------------------------------------------
(* Lend::next and LendMut::next.  The item of a lending iterator is a pair *)
(* of a reference to the wrapped producer (what the reference shows is the *)
(* producer as it is when the pair is returned) and the item.              *)

\* item.map(move |item| (&self.0, item))
LendOut_SwallowsItem(it, item) == None
LendOut(it, item) ==
    IF item.some
    THEN Some([ref |-> [mode |-> "shared", target |-> Inner(it)],
               item |-> item.val])
    ELSE None

\* item.map(move |item| (&mut self.0, item))
LendMutOut(it, item) ==
    IF item.some
    THEN Some([ref |-> [mode |-> "exclusive", target |-> Inner(it)],
               item |-> item.val])
    ELSE None

\* self.0.next() is called
LendNext ==
    /\ Running
    /\ ctl.k = "call"
    /\ KindAt(ctl.lvl) = "lend"
    /\ ctl' = Call(ctl.lvl + 1)
    /\ sus' = "run"
    /\ UNCHANGED <<op, arg, iter, vec, pc, out, reqs, fcalls, pcalls, orig,
                   vec0, resps>>

\* .await; the response is mapped to the pair and returned
LendResume ==
    /\ Running
    /\ ctl.k = "ret"
    /\ KindAt(ctl.lvl - 1) = "lend"
    /\ ctl' = Ret(ctl.lvl - 1, LendOut(iter, ctl.val))
    /\ resps' = Returned(ctl.lvl - 1, LendOut(iter, ctl.val))
    /\ sus' = "run"
    /\ UNCHANGED <<op, arg, iter, vec, pc, out, reqs, fcalls, pcalls, orig,
                   vec0>>

LendMutNext ==
    /\ Running
    /\ ctl.k = "call"
    /\ KindAt(ctl.lvl) = "lend_mut"
    /\ ctl' = Call(ctl.lvl + 1)
    /\ sus' = "run"
    /\ UNCHANGED <<op, arg, iter, vec, pc, out, reqs, fcalls, pcalls, orig,
                   vec0, resps>>

LendMutResume ==
    /\ Running
    /\ ctl.k = "ret"
    /\ KindAt(ctl.lvl - 1) = "lend_mut"
    /\ ctl' = Ret(ctl.lvl - 1, LendMutOut(iter, ctl.val))
    /\ resps' = Returned(ctl.lvl - 1, LendMutOut(iter, ctl.val))
    /\ sus' = "run"
    /\ UNCHANGED <<op, arg, iter, vec, pc, out, reqs, fcalls, pcalls, orig,
                   vec0>>

----------------------------------------------------------------------------
(* next of the base producer *)

ProducerNext ==
    /\ Running
    /\ ctl.k = "call"
    /\ KindAt(ctl.lvl) = "base"
    /\ iter' = [iter EXCEPT !.base = BaseNext(@).base]
    /\ ctl' = Ret(ctl.lvl, BaseNext(iter.base).resp)
    /\ reqs' = reqs + 1
    /\ resps' = Returned(ctl.lvl, BaseNext(iter.base).resp)
    /\ sus' = "run"
    /\ UNCHANGED <<op, arg, vec, pc, out, fcalls, pcalls, orig, vec0>>

----------------------------------------------------------------------------
(* Suspension.  The futures that can return Poll::Pending are the leaves:  *)
(* next of the base producer and the future of the user's closure.  Every  *)
(* adapter awaits them at `self.iter.next().await` (for whatever is below  *)
(* it) or at the await of its own closure.  A suspended future does        *)
(* nothing until it is polled again, and then goes on from the same await. *)

AtAwait ==
    /\ pc = "await"
    /\ \/ ctl.k = "call" /\ KindAt(ctl.lvl) = "base"
       \/ ctl.k = "fn"

\* where the future continues when it is polled again
ResumeAt_Restart(c) == Call(1)
ResumeAt(c) == c

Suspend ==
    /\ sus = "run"
    /\ AtAwait
    /\ sus' = "pending"
    /\ UNCHANGED <<op, arg, iter, vec, pc, ctl, out, reqs, fcalls, pcalls,
                   orig, vec0, resps>>

Resume ==
    /\ sus = "pending"
    /\ sus' = "resumed"
    /\ ctl' = ResumeAt(ctl)
    /\ UNCHANGED <<op, arg, iter, vec, pc, out, reqs, fcalls, pcalls, orig,
                   vec0, resps>>

----------------------------------------------------------------------------

Next ==
    \/ IntoIter
    \/ FromIterAlloc
    \/ ExtendReserve
    \/ CallNext
    \/ DrainPush
    \/ DrainReturn
    \/ PollResume
    \/ PollStop
    \/ MapNext
    \/ MapResume
    \/ MapFnDone
    \/ FilterNext
    \/ FilterResume
    \/ FilterPredDone
    \/ LendNext
    \/ LendResume
    \/ LendMutNext
    \/ LendMutResume
    \/ ProducerNext
    \/ Suspend
    \/ Resume

Spec == Init /\ [][Next]_vars

----------------------------------------------------------------------------
(* What the claims are stated with *)

\* [f(i1), ..., f(in)]
MapSeq(fn, s) == [i \in 1..Len(s) |-> CallF(fn, s[i])]

\* the subsequence of s that satisfies the predicate
FilterSeq(pr, s) == SelectSeq(s, LAMBDA x : CallPredicate(pr, x))

\* the items a pipeline yields from now on before its terminal signal
RECURSIVE Yields(_)
Yields(it) ==
    IF it.chain = <<>>
    THEN BaseItems(it.base)
    ELSE IF it.chain[1] = "map"
         THEN MapSeq(it.f, Yields(Inner(it)))
         ELSE FilterSeq(it.predicate, Yields(Inner(it)))

Outermost(it) == IF it.chain = <<>> THEN "base" ELSE it.chain[1]

\* no request is in flight, so the caller may ask for the size hint
Quiescent == pc \in {"reserve", "next"}

\* the hint of a base producer is right at every point of its script
TruthfulBase(b) ==
    \A p \in 0..Len(b.script) :
        LET at == [b EXCEPT !.pos = p]
            h == BaseSizeHint(at)
            n == Len(BaseItems(at))
        IN  h[1] <= n /\ (h[2].some => n <= h[2].val)

----------------------------------------------------------------------------
(* C1: collect(P) returns exactly the items of P, in producer order,       *)
(* whatever size hint P reports.                                           *)
C1_CollectExact ==
    op = "collect" =>
        /\ pc # "panic"
        /\ pc = "done" => vec.elems = Yields(orig)

\* what the code does guarantee: a collect that returns has returned the
\* items of P in order
C1_CollectExactIfReturned ==
    (op = "collect" /\ pc = "done") => vec.elems = Yields(orig)

(* C2: collect(map(P, f)) is [f(i1), ..., f(in)]: the length of P's        *)
(* sequence, its order, one output per input.                              *)
C2_MapCollect ==
    (op = "collect" /\ Outermost(orig) = "map") =>
        /\ pc # "panic"
        /\ pc = "done" =>
            /\ vec.elems = MapSeq(orig.f, Yields(Inner(orig)))
            /\ Len(vec.elems) = Len(Yields(Inner(orig)))
            /\ fcalls = Yields(Inner(orig))

C2_Witness ==
    /\ op = "collect" /\ pc = "done"
    /\ orig.chain = <<"map">> /\ orig.f = "times10"
    /\ vec.elems = <<20, 10, 20>>

(* C3: collect(filter(P, pred)) is the subsequence of P's items that       *)
(* satisfy pred, in their original order.                                  *)
C3_FilterCollect ==
    (op = "collect" /\ Outermost(orig) = "filter") =>
        /\ pc # "panic"
        /\ pc = "done" =>
            vec.elems = FilterSeq(orig.predicate, Yields(Inner(orig)))

C3_FilterCollectIfReturned ==
    (op = "collect" /\ Outermost(orig) = "filter" /\ pc = "done") =>
        vec.elems = FilterSeq(orig.predicate, Yields(Inner(orig)))

(* C4: collect(map(filter(P, pred), f)) is f applied, in order, to exactly *)
(* the items of P that satisfy pred, and f is never called on an item that *)
(* pred rejected.                                                          *)
C4_Compose ==
    (op = "collect" /\ orig.chain = <<"map", "filter">>) =>
        /\ pc # "panic"
        /\ \A i \in 1..Len(fcalls) : CallPredicate(orig.predicate, fcalls[i])
        /\ pc = "done" =>
            /\ vec.elems =
                 MapSeq(orig.f, FilterSeq(orig.predicate, BaseItems(orig.base)))
            /\ fcalls = FilterSeq(orig.predicate, BaseItems(orig.base))

\* the scenario of the specification at the model's size: [1, 2, 1],
\* is-even, times 10
C4_Witness ==
    /\ op = "collect" /\ pc = "done"
    /\ orig.chain = <<"map", "filter">>
    /\ orig.predicate = "is_even" /\ orig.f = "times10"
    /\ BaseItems(orig.base) = <<1, 2, 1>>
    /\ vec.elems = <<20>>

(* C5: after extend(C, P) the container is the elements C had, unchanged   *)
(* and in place, followed by the items of P in producer order.             *)
C5_ExtendAppends ==
    op = "extend" =>
        /\ pc # "panic"
        /\ SubSeq(vec.elems, 1, Len(vec0.elems)) = vec0.elems
        /\ pc = "done" => vec.elems = vec0.elems \o Yields(orig)

C5_ExtendAppendsIfReturned ==
    op = "extend" =>
        /\ Len(vec.elems) >= Len(vec0.elems)
        /\ SubSeq(vec.elems, 1, Len(vec0.elems)) = vec0.elems
        /\ pc = "done" => vec.elems = vec0.elems \o Yields(orig)

(* C6: once(v) answers its first request with v and every later request    *)
(* with the terminal signal; v is never yielded twice.                     *)
C6_OnceStable ==
    (op = "poll" /\ orig.chain = <<>> /\ orig.base.kind = "once") =>
        \A i \in 1..Len(out) :
            out[i] = IF i = 1 THEN orig.base.value ELSE None

C6_Witness ==
    /\ op = "poll" /\ orig = Source(once(2))
    /\ out = <<Some(2), None, None>>

(* C7: the size hint of map(P, f) is the size hint of P, at every point of *)
(* the iteration.                                                          *)
C7_MapHint ==
    (Quiescent /\ Outermost(iter) = "map") =>
        size_hint(iter) = size_hint(Inner(iter))

(* C8: the size hint of filter(P, pred) is (0, hi) where hi is the upper   *)
(* bound P reports at that point.                                          *)
C8_FilterHint ==
    (Quiescent /\ Outermost(iter) = "filter") =>
        /\ size_hint(iter)[1] = 0
        /\ size_hint(iter)[2] = size_hint(Inner(iter))[2]

C8_Witness ==
    /\ Quiescent /\ iter.chain = <<"filter">> /\ reqs > 0
    /\ BaseSizeHint(iter.base) = <<1, Some(1)>>
    /\ size_hint(iter) = <<0, Some(1)>>

(* C9: over a base producer whose hint is truthful, the hint of a pipeline *)
(* of map and filter adapters is truthful at every point: the items still  *)
(* to come are at least the lower bound and at most the upper bound.       *)
C9_HintSafe ==
    (Quiescent /\ Outermost(iter) \in {"map", "filter"}
        /\ TruthfulBase(iter.base)) =>
        LET h == size_hint(iter)
            n == Len(Yields(iter))
        IN  h[1] <= n /\ (h[2].some => n <= h[2].val)

C9_Witness ==
    /\ Quiescent /\ iter.chain = <<"filter", "map">> /\ reqs > 0
    /\ iter.base.hint = "exact"
    /\ Len(BaseItems(iter.base)) = 2
    /\ Yields(iter) = <<>>

(* C10: into_iter(P) is P itself, not advanced: no request is made, and    *)
(* the result has the size hint and the items of P; converting again       *)
(* changes nothing.                                                        *)
C10_IntoIterIdentity ==
    [][pc = "into_iter" =>
          /\ iter' = arg
          /\ reqs' = reqs
          /\ size_hint(iter') = size_hint(arg)
          /\ Yields(iter') = Yields(arg)
          /\ into_iter(iter') = iter']_vars

C10_Witness ==
    /\ pc = "reserve" /\ iter = orig /\ reqs = 0
    /\ Len(Yields(iter)) = 2

----------------------------------------------------------------------------
(* What the claims about single requests are stated with *)

IsPrefix(a, b) == Len(a) <= Len(b) /\ SubSeq(b, 1, Len(a)) = a

\* the responses level l has returned so far, in order
Sel(l) ==
    LET es == SelectSeq(resps, LAMBDA e : e.lvl = l)
    IN  [i \in 1..Len(es) |-> es[i].val]

\* the items among a sequence of responses
RECURSIVE SomeVals(_)
SomeVals(rs) ==
    IF rs = <<>> THEN <<>>
    ELSE IF Head(rs).some THEN <<Head(rs).val>> \o SomeVals(Tail(rs))
    ELSE SomeVals(Tail(rs))

\* the level of the base producer
BaseLevel == Len(orig.chain) + 1

\* the answers of the base producer to its first n requests
BaseAnswers(b, n) ==
    LET s == IF b.kind = "once" THEN <<b.value>> ELSE b.script
    IN  [i \in 1..n |-> IF i <= Len(s) THEN s[i] ELSE None]

\* what a stack of map and filter adapters with no state of its own answers
\* when the producer below it answers rs: f on every item, the rejected
\* items left out, every None passed on
RECURSIVE Forwarded(_, _)
Forwarded(it, rs) ==
    IF it.chain = <<>> THEN rs
    ELSE LET below == Forwarded(Inner(it), rs)
         IN  IF it.chain[1] = "map"
             THEN [i \in 1..Len(below) |->
                     IF below[i].some THEN Some(CallF(it.f, below[i].val))
                     ELSE None]
             ELSE SelectSeq(below,
                            LAMBDA r : r.some => CallPredicate(it.predicate, r.val))

IsLending(it) == Outermost(it) \in {"lend", "lend_mut"}

\* the items the caller has been handed so far
Delivered ==
    IF op = "poll" THEN SomeVals(out)
    ELSE SubSeq(vec.elems, Len(vec0.elems) + 1, Len(vec.elems))

\* the items the predicate has rejected so far
Rejected == SelectSeq(pcalls, LAMBDA x : ~ CallPredicate(orig.predicate, x))

----------------------------------------------------------------------------
(* C11: Map::next returns the terminal signal at once, without calling f,  *)
(* when the wrapped producer signals termination; f is called exactly once *)
(* per item the wrapped producer yields, in the order yielded.             *)
C11_MapCallsInv ==
    \A l \in 1..Len(iter.chain) :
        iter.chain[l] = "map" =>
            LET inner == SomeVals(Sel(l + 1))
                held == \/ ctl.k = "ret" /\ ctl.lvl = l + 1 /\ ctl.val.some
                        \/ ctl.k = "fn" /\ ctl.lvl = l
            IN  IF held
                THEN inner = Append(fcalls, ctl.val.val)
                ELSE inner = fcalls

C11_MapTerminalStep ==
    (ctl.k = "ret" /\ ~ ctl.val.some /\ KindAt(ctl.lvl - 1) = "map") =>
        (ctl' = Ret(ctl.lvl - 1, None) /\ fcalls' = fcalls)

C11_MapCalls == []C11_MapCallsInv /\ [][C11_MapTerminalStep]_vars

C11_Witness ==
    /\ iter.chain = <<"map">>
    /\ fcalls = <<1, 2>>
    /\ Sel(2) = <<Some(1), Some(2), None>>
    /\ Sel(1) = <<Some(10), Some(20), None>>

(* C12: a request on a map or filter adapter suspends only at the inner    *)
(* producer's next and at the call of the closure; across suspensions and  *)
(* resumptions every item of the wrapped producer is requested once, never *)
(* again, and the items reach the caller in producer order, at most one of *)
(* them held inside the adapters.                                          *)
C12_ExactlyOnceInv ==
    ~ IsLending(orig) =>
        /\ sus = "pending" => AtAwait
        /\ Sel(BaseLevel) = BaseAnswers(orig.base, reqs)
        /\ IsPrefix(Delivered, SomeVals(Forwarded(orig, BaseAnswers(orig.base, reqs))))
        /\ LET held == Len(SomeVals(Sel(BaseLevel))) - Len(Delivered) - Len(Rejected)
           IN  held = IF pc = "await" /\ ctl.val.some THEN 1 ELSE 0

C12_ResumeStep ==
    (sus = "pending" /\ ~ IsLending(orig)) =>
        /\ ctl' = ctl /\ iter' = iter /\ reqs' = reqs /\ resps' = resps
        /\ fcalls' = fcalls /\ pcalls' = pcalls /\ vec' = vec /\ out' = out

C12_ExactlyOnce == []C12_ExactlyOnceInv /\ [][C12_ResumeStep]_vars

C12_Witness ==
    /\ op = "collect" /\ orig.chain = <<"map", "filter">>
    /\ sus = "resumed" /\ ctl.k = "fn" /\ ctl.lvl = 1
    /\ vec.elems = <<20>> /\ reqs = 3

(* C13: every request on Lend or LendMut makes one request to the wrapped  *)
(* producer and returns its item unchanged, paired with a reference to the *)
(* wrapped producer, or its terminal signal.                               *)
C13_Lending ==
    IsLending(iter) =>
        LET mine == Sel(1)
            wrapped == Sel(2)
            mode == IF iter.chain[1] = "lend" THEN "shared" ELSE "exclusive"
        IN  /\ Len(wrapped) = Len(mine)
                 + (IF pc = "await" /\ ctl.k = "ret" /\ ctl.lvl = 2 THEN 1 ELSE 0)
            /\ Len(mine) = Len(out)
                 + (IF pc = "await" /\ ctl.k = "ret" /\ ctl.lvl = 1 THEN 1 ELSE 0)
            /\ \A i \in 1..Len(mine) :
                /\ mine[i].some = wrapped[i].some
                /\ mine[i].some =>
                    /\ mine[i].val.item = wrapped[i].val
                    /\ mine[i].val.ref.mode = mode
                    /\ mine[i].val.ref.target.chain = Tail(orig.chain)
            /\ \A i \in 1..Len(out) : out[i] = mine[i]

C13_Witness ==
    /\ op = "poll" /\ orig.chain = <<"lend_mut">>
    /\ Len(out) = 3
    /\ out[1].some /\ out[1].val.item = 2 /\ out[1].val.ref.mode = "exclusive"
    /\ out[2].some /\ out[2].val.item = 1
    /\ ~ out[3].some

(* C14: a drain over a producer that reaches its terminal signal after     *)
(* finitely many items returns, and what it returns is complete.           *)
C14_DrainReturns ==
    op \in {"collect", "extend"} =>
        /\ (~ ENABLED Next) => pc = "done"
        /\ pc = "done" => vec.elems = vec0.elems \o Yields(orig)

\* what the code does guarantee: a drain returns only on the terminal
\* signal, with every item before it in the container
C14_NoPartialReturn ==
    (op \in {"collect", "extend"} /\ pc = "done") =>
        /\ Sel(1) # <<>> /\ ~ Sel(1)[Len(Sel(1))].some
        /\ vec.elems = vec0.elems \o Yields(orig)

(* C15: map, filter and the lending adapters keep no exhaustion state:     *)
(* every request is forwarded to the wrapped producer, also after a        *)
(* terminal signal, and the adapter signals termination exactly when the   *)
(* wrapped producer does; over a producer that resumes, it resumes.        *)
C15_NoExhaustionState ==
    op = "poll" =>
        /\ \A l \in 1..Len(orig.chain) :
            \A i \in 1..Len(resps) :
                /\ resps[i].lvl = l =>
                    /\ i > 1
                    /\ resps[i - 1].lvl = l + 1
                    /\ resps[i - 1].val.some = resps[i].val.some
                /\ (resps[i].lvl = l + 1 /\ ~ resps[i].val.some /\ i < Len(resps)) =>
                    /\ resps[i + 1].lvl = l
                    /\ ~ resps[i + 1].val.some
        /\ ~ IsLending(orig) =>
            IsPrefix(out, Forwarded(orig, BaseAnswers(orig.base, reqs)))

C15_Witness ==
    /\ op = "poll" /\ orig.chain = <<"map">> /\ orig.f = "times10"
    /\ out = <<Some(10), None, Some(20)>>

(* C16: the drain loop stops at the first terminal signal: over a producer *)
(* that yields n items before it, the drain makes n + 1 requests and none  *)
(* afterwards, and nothing the producer would yield later is placed in the *)
(* container.                                                              *)
C16_StopsAtFirstNone ==
    op \in {"collect", "extend"} =>
        LET n == Len(Yields(orig))
            made == Len(Sel(1)) + (IF pc = "await" /\ ~ (ctl.k = "ret" /\ ctl.lvl = 1) THEN 1 ELSE 0)
        IN  /\ made <= n + 1
            /\ IsPrefix(vec.elems, vec0.elems \o Yields(orig))
            /\ pc = "done" =>
                /\ Len(Sel(1)) = n + 1
                /\ ~ ENABLED Next
                /\ vec.elems = vec0.elems \o Yields(orig)

C16_Witness ==
    /\ op = "collect" /\ pc = "done" /\ orig.chain = <<>>
    /\ orig.base.script = <<Some(1), None, Some(2)>>
    /\ vec.elems = <<1>>
    /\ reqs = 2

====
